---- MODULE Spec2Model ----
(***************************************************************************)
(* bg3_save_cleaner: a model of src/src/main.rs.                           *)
(*                                                                         *)
(* A folder name is a sequence of characters; a character is a one-letter  *)
(* string, except the non-ASCII character, which is written "U+00E9" and   *)
(* takes two bytes in UTF-8.  A Result is a record with a tag "Ok"/"Err".  *)
(***************************************************************************)
EXTENDS Integers, Sequences, FiniteSets, TLC

VARIABLES
    pc,                 \* position of main in its pipeline
    dir,                \* the save directory: a set of entries [name, kind, children]
    saves_to_preserve,  \* main: saves_to_preserve
    listing,            \* the entries in the order fs::read_dir yielded them
    saves,              \* the Vec<SaveInformation> collected by the scan
    map,                \* HashMap<String, Saves>
    delete_vec,         \* the Vec<SaveInformation> get_delete_vec returned
    user_input,         \* the trimmed line confirm_user_delete read
    idx,                \* delete: index of the candidate being removed
    phase,              \* delete: the next filesystem call for that candidate
    calls,              \* every filesystem call delete made, in order
    result,             \* what the pipeline expression of main evaluated to
    exit_code,          \* the exit status of the process
    file_name,          \* argument of a direct call of package_details
    details,            \* what that call returned
    previous            \* how the run before this one ended

vars == <<pc, dir, saves_to_preserve, listing, saves, map, delete_vec,
          user_input, idx, phase, calls, result, exit_code, file_name, details,
          previous>>

pipeline_vars == <<pc, dir, saves_to_preserve, listing, saves, map, delete_vec,
                   user_input, idx, phase, calls, result, exit_code, previous>>

----------------------------------------------------------------------------
(* Bounds of the model *)

\* longest name enumerated exhaustively over Alphabet
MaxNameLen == 3
\* most entries in the save directory
MaxEntries == 3
\* largest preserve count tried
MaxPreserve == 2

----------------------------------------------------------------------------
(* Characters and strings *)

NonAscii == {"U+00E9"}

\* bytes a character takes in the UTF-8 encoding of a &str
len_utf8(c) == IF c \in NonAscii THEN 2 ELSE 1

UpperCase == <<"A","B","C","D","E","F","G","H","I","J","K","L","M",
               "N","O","P","Q","R","S","T","U","V","W","X","Y","Z">>
LowerCase == <<"a","b","c","d","e","f","g","h","i","j","k","l","m",
               "n","o","p","q","r","s","t","u","v","w","x","y","z">>

Digits == <<"0","1","2","3","4","5","6","7","8","9">>

WhiteSpace == {" ", "\n", "\r", "\t"}

is_ascii(s) == \A i \in 1..Len(s) : s[i] \notin NonAscii

\* the lower-case letter of each upper-case ASCII letter
AsciiLower ==
    [c \in {UpperCase[i] : i \in 1..26} |->
        LowerCase[CHOOSE i \in 1..26 : UpperCase[i] = c]]

char_to_ascii_lowercase(c) == IF c \in DOMAIN AsciiLower THEN AsciiLower[c] ELSE c

to_ascii_lowercase(s) == [i \in 1..Len(s) |-> char_to_ascii_lowercase(s[i])]

eq_ignore_ascii_case(a, b) == to_ascii_lowercase(a) = to_ascii_lowercase(b)

\* str::contains with a string pattern
contains(s, pat) ==
    \E i \in 1..(Len(s) - Len(pat) + 1) : SubSeq(s, i, i + Len(pat) - 1) = pat

\* str::find with a char pattern: the BYTE offset of the first match, or -1 for None
RECURSIVE find_from(_, _, _, _)
find_from(s, c, i, offset) ==
    IF i > Len(s) THEN -1
    ELSE IF s[i] = c THEN offset
    ELSE find_from(s, c, i + 1, offset + len_utf8(s[i]))

find(s, c) == find_from(s, c, 1, 0)

\* s.chars().take(n).collect(): the first n CHARACTERS
chars_take(s, n) == SubSeq(s, 1, IF n < Len(s) THEN n ELSE Len(s))

\* str::split with a char pattern, collected: at least one segment, also for ""
RECURSIVE split_from(_, _, _, _)
split_from(s, c, i, cur) ==
    IF i > Len(s) THEN <<cur>>
    ELSE IF s[i] = c THEN <<cur>> \o split_from(s, c, i + 1, <<>>)
    ELSE split_from(s, c, i + 1, Append(cur, s[i]))

split(s, c) == split_from(s, c, 1, <<>>)

\* str::trim: leading and trailing white space removed
RECURSIVE trim_start(_)
trim_start(s) ==
    IF s # <<>> /\ Head(s) \in WhiteSpace THEN trim_start(Tail(s)) ELSE s

RECURSIVE trim_end(_)
trim_end(s) ==
    IF s # <<>> /\ s[Len(s)] \in WhiteSpace
    THEN trim_end(SubSeq(s, 1, Len(s) - 1)) ELSE s

trim(s) == trim_end(trim_start(s))

----------------------------------------------------------------------------
(* Results *)

Ok(v) == [tag |-> "Ok", val |-> v]
Err(e) == [tag |-> "Err", err |-> e]
None == [tag |-> "None"]
Some(v) == [tag |-> "Some", val |-> v]
is_ok(r) == r.tag = "Ok"
is_err(r) == r.tag = "Err"

----------------------------------------------------------------------------
(* u16 *)

U16Max == 65535

\* the value of each decimal digit
DigitValue == [c \in {Digits[d] : d \in 1..10} |-> (CHOOSE d \in 1..10 : Digits[d] = c) - 1]

is_digit(c) == c \in DOMAIN DigitValue
to_digit(c) == DigitValue[c]

\* the digit loop of from_str_radix: checked_mul, then to_digit, then checked_add
RECURSIVE parse_digits(_, _, _)
parse_digits(s, i, acc) ==
    IF i > Len(s) THEN Ok(acc)
    ELSE IF ~is_digit(s[i]) THEN Err("InvalidDigit")
    ELSE IF acc * 10 + to_digit(s[i]) > U16Max THEN Err("PosOverflow")
    ELSE parse_digits(s, i + 1, acc * 10 + to_digit(s[i]))

\* <u16 as FromStr>::from_str: an optional '+', then decimal digits
parse_u16(s) ==
    IF s = <<>> THEN Err("Empty")
    ELSE IF Len(s) = 1 /\ s[1] \in {"+", "-"} THEN Err("InvalidDigit")
    ELSE IF s[1] = "+" THEN parse_digits(Tail(s), 1, 0)
    ELSE parse_digits(s, 1, 0)

----------------------------------------------------------------------------
(* The name parser *)

quicksave == <<"q","u","i","c","k","s","a","v","e">>
autosave == <<"a","u","t","o","s","a","v","e">>

\* save_type with the two tests in the other order
save_type_auto_first(folder_name) ==
    IF contains(to_ascii_lowercase(folder_name), autosave) THEN "Auto"
    ELSE IF contains(to_ascii_lowercase(folder_name), quicksave) THEN "Quick"
    ELSE "Unrecognized"

save_type(folder_name) ==
    IF contains(to_ascii_lowercase(folder_name), quicksave) THEN "Quick"
    ELSE IF contains(to_ascii_lowercase(folder_name), autosave) THEN "Auto"
    ELSE "Unrecognized"

character_name(folder_name) ==
    LET index == find(folder_name, "-") IN
    IF index > 0
    THEN Ok(chars_take(folder_name, index))
    ELSE Err("NameNotDetected")

save_number(folder_name) ==
    LET segments == split(folder_name, "_") IN
    IF Len(segments) <= 1 THEN Err("NotEnoughUnderscores")
    ELSE LET parsed == parse_u16(segments[Len(segments)]) IN
         IF is_ok(parsed) THEN parsed ELSE Err("StringNotNumber")

SaveInformation(name, characters_name, s_type, number) ==
    [file_name |-> name, character_name |-> characters_name,
     save_type |-> s_type, save_number |-> number]

\* package_details with character_name called before save_number
package_details_name_first(name) ==
    LET parse_number == save_number(name)
        characters_name == character_name(name)
    IN  IF is_err(characters_name) THEN characters_name
        ELSE IF is_err(parse_number) THEN parse_number
        ELSE Ok(SaveInformation(name, characters_name.val, save_type(name),
                                parse_number.val))

package_details(name) ==
    LET parse_number == save_number(name)
        characters_name == character_name(name)
    IN  IF is_err(parse_number) THEN parse_number
        ELSE IF is_err(characters_name) THEN characters_name
        ELSE Ok(SaveInformation(name, characters_name.val, save_type(name),
                                parse_number.val))

----------------------------------------------------------------------------
(* Folder names the parser is called with *)

Alphabet == {"-", "_", "5", "+", "a", "U+00E9"}

RECURSIVE StringsUpTo(_)
StringsUpTo(n) ==
    IF n = 0 THEN {<<>>}
    ELSE LET shorter == StringsUpTo(n - 1) IN
         shorter \cup {Append(s, c) : s \in shorter, c \in Alphabet}

Alice == <<"A","l","i","c","e">>
QuickSave == <<"Q","u","i","c","k","S","a","v","e">>
AutoSave == <<"A","u","t","o","S","a","v","e">>

NameParts ==
    { <<>>, Alice, QuickSave, <<"B"," ","b">>, <<"B","_","b">>,
      <<"O","'","N">>, <<"U+00E9">>, <<"a","U+00E9">> }

IdParts == { <<>>, <<"-","1">>, <<"-","1","-","2">> }

CategoryParts ==
    { <<>>, <<"_">> \o QuickSave, <<"_">> \o quicksave,
      <<"_","Q","U","I","C","K","S","A","V","E">>,
      <<"_">> \o AutoSave, <<"_">> \o autosave,
      <<"_">> \o AutoSave \o <<"_">> \o QuickSave,
      <<"_">> \o QuickSave \o AutoSave,
      <<"_","M","a","n","u","a","l","S","a","v","e">>,
      <<"_","Q","u","i","c","k","_","S","a","v","e">> }

\* format!("{}", n) of an unsigned integer
RECURSIVE to_string(_)
to_string(n) ==
    IF n < 10 THEN <<Digits[n + 1]>>
    ELSE Append(to_string(n \div 10), Digits[(n % 10) + 1])

SampleNumbers ==
    {0, 1, 9, 10, 277, 9999, 10000, 65534, 65535, 65536, 65537, 70000, 99999, 100000}

SeqParts ==
    { <<>>, <<"_">>, <<"_","-","2","2">>, <<"_","+","5">>, <<"_","+">>,
      <<"_","5","x">>, <<"_","0","0","7">>, <<"_"," ","5">>,
      <<"_","0","0","6","5","5","3","5">>, <<"_","0","0","6","5","5","3","6">> }
    \cup { <<"_">> \o to_string(n) : n \in SampleNumbers }

ComposedNames ==
    { a \o b \o c \o d :
        a \in NameParts, b \in IdParts, c \in CategoryParts, d \in SeqParts }

ParserInputs == StringsUpTo(MaxNameLen) \cup ComposedNames

----------------------------------------------------------------------------
(* Direct calls of the parser's functions, as the unit tests make them *)

Call(fn, ret) == [fn |-> fn, ret |-> ret]

NoCall == Call("none", Ok(0))

\* there was no run before this one
NoRun == [clean |-> FALSE, removed |-> 0]

PipelineIdle ==
    /\ pc = "unit"
    /\ dir = {}
    /\ saves_to_preserve = 0
    /\ listing = <<>>
    /\ saves = <<>>
    /\ map = <<>>
    /\ delete_vec = <<>>
    /\ user_input = <<>>
    /\ idx = 0
    /\ phase = "none"
    /\ calls = <<>>
    /\ result = None
    /\ exit_code = -1

InitParse ==
    /\ PipelineIdle
    /\ file_name \in ParserInputs
    /\ details = NoCall
    /\ previous = NoRun

CallPackageDetails ==
    /\ pc = "unit" /\ details.fn = "none"
    /\ details' = Call("package_details", package_details(file_name))
    /\ UNCHANGED <<pipeline_vars, file_name>>

CallSaveNumber ==
    /\ pc = "unit" /\ details.fn = "none"
    /\ details' = Call("save_number", save_number(file_name))
    /\ UNCHANGED <<pipeline_vars, file_name>>

CallCharacterName ==
    /\ pc = "unit" /\ details.fn = "none"
    /\ details' = Call("character_name", character_name(file_name))
    /\ UNCHANGED <<pipeline_vars, file_name>>

CallSaveType ==
    /\ pc = "unit" /\ details.fn = "none"
    /\ details' = Call("save_type", Ok(save_type(file_name)))
    /\ UNCHANGED <<pipeline_vars, file_name>>

NextParse ==
    \/ CallPackageDetails
    \/ CallSaveNumber
    \/ CallCharacterName
    \/ CallSaveType

SpecParse == InitParse /\ [][NextParse]_vars

----------------------------------------------------------------------------
(* Grouping, sorting and retention selection *)

SaveTypes == {"Quick", "Auto", "Unrecognized"}

Saves_new == [quick_saves |-> <<>>, auto_saves |-> <<>>]

\* insert_save filing an Unrecognized save under quick_saves
insert_save_unrecognized_as_quick(save_by_type, save_information) ==
    CASE save_information.save_type = "Auto" ->
            [save_by_type EXCEPT !.auto_saves = Append(@, save_information)]
      [] OTHER ->
            [save_by_type EXCEPT !.quick_saves = Append(@, save_information)]

insert_save(save_by_type, save_information) ==
    CASE save_information.save_type = "Quick" ->
            [save_by_type EXCEPT !.quick_saves = Append(@, save_information)]
      [] save_information.save_type = "Auto" ->
            [save_by_type EXCEPT !.auto_saves = Append(@, save_information)]
      [] OTHER -> save_by_type

\* group_by_character inserting a fresh Saves instead of looking the entry up
group_by_character_overwrite(m, save_information) ==
    LET key == save_information.character_name
    IN  [k \in (DOMAIN m) \cup {key} |->
            IF k = key THEN insert_save(Saves_new, save_information) ELSE m[k]]

\* map.entry(character_name).or_insert_with(Saves::new), then insert_save
group_by_character(m, save_information) ==
    LET key == save_information.character_name
        entry == IF key \in DOMAIN m THEN m[key] ELSE Saves_new
    IN  [k \in (DOMAIN m) \cup {key} |->
            IF k = key THEN insert_save(entry, save_information) ELSE m[k]]

RECURSIVE fold_group(_, _, _)
fold_group(m, records, i) ==
    IF i > Len(records) THEN m
    ELSE fold_group(group_by_character(m, records[i]), records, i + 1)

\* the empty HashMap
HashMap_new == [k \in {} |-> Saves_new]

group_saves(records) == fold_group(HashMap_new, records, 1)

\* the comparator with its operands the other way round: an ascending sort
sorts_before_ascending(save_a, save_b) == save_a.save_number < save_b.save_number

\* the comparator given to sort_by: b.save_number.partial_cmp(&a.save_number);
\* TRUE when save_a must come strictly before save_b
sorts_before(save_a, save_b) == save_b.save_number < save_a.save_number

\* an insertion that puts x in front of the elements it compares equal to
insert_unstable(sorted, x) ==
    LET ahead == {i \in 1..Len(sorted) : sorts_before(sorted[i], x)}
        at == IF ahead = {} THEN 0 ELSE CHOOSE i \in ahead : \A j \in ahead : j <= i
    IN  SubSeq(sorted, 1, at) \o <<x>> \o SubSeq(sorted, at + 1, Len(sorted))

\* where a stable sort puts x among the already sorted elements: behind every
\* element that does not sort after it
insert_stable(sorted, x) ==
    LET behind == {i \in 1..Len(sorted) : ~sorts_before(x, sorted[i])}
        at == IF behind = {} THEN 0 ELSE CHOOSE i \in behind : \A j \in behind : j <= i
    IN  SubSeq(sorted, 1, at) \o <<x>> \o SubSeq(sorted, at + 1, Len(sorted))

RECURSIVE sort_from(_, _, _)
sort_from(sorted, list, i) ==
    IF i > Len(list) THEN sorted
    ELSE sort_from(insert_stable(sorted, list[i]), list, i + 1)

\* slice::sort_by, a stable sort
sort_by(list) == sort_from(<<>>, list, 1)

sort_map_saves(m) ==
    [k \in DOMAIN m |-> [quick_saves |-> sort_by(m[k].quick_saves),
                         auto_saves |-> sort_by(m[k].auto_saves)]]

\* take(number_to_preserve) in place of skip(number_to_preserve)
deletable_saves_take(list, number_to_preserve) ==
    SubSeq(list, 1, IF number_to_preserve < Len(list) THEN number_to_preserve ELSE Len(list))

\* saves.into_iter().skip(number_to_preserve).collect()
RECURSIVE deletable_saves(_, _)
deletable_saves(list, number_to_preserve) ==
    IF number_to_preserve = 0 \/ list = <<>> THEN list
    ELSE deletable_saves(Tail(list), number_to_preserve - 1)

\* the fold of get_delete_vec over the map's entries in the order `keys`, the
\* order in which the HashMap happens to iterate
RECURSIVE get_delete_vec(_, _, _)
get_delete_vec(m, keys, number_to_preserve) ==
    IF keys = <<>> THEN <<>>
    ELSE deletable_saves(m[Head(keys)].quick_saves, number_to_preserve)
         \o deletable_saves(m[Head(keys)].auto_saves, number_to_preserve)
         \o get_delete_vec(m, Tail(keys), number_to_preserve)

\* the orders in which a set can be enumerated
Enumerations(S) ==
    {f \in [1..Cardinality(S) -> S] :
        \A i, j \in 1..Cardinality(S) : i # j => f[i] # f[j]}

GroupSaves ==
    /\ pc = "scanned"
    /\ map' = group_saves(saves)
    /\ pc' = "grouped"
    /\ UNCHANGED <<dir, saves_to_preserve, listing, saves, delete_vec, user_input,
                   idx, phase, calls, result, exit_code, file_name, details,
                   previous>>

SortMapSaves ==
    /\ pc = "grouped"
    /\ map' = sort_map_saves(map)
    /\ pc' = "sorted"
    /\ UNCHANGED <<dir, saves_to_preserve, listing, saves, delete_vec, user_input,
                   idx, phase, calls, result, exit_code, file_name, details,
                   previous>>

GetDeleteVec ==
    /\ pc = "sorted"
    /\ \E keys \in Enumerations(DOMAIN map) :
          delete_vec' = get_delete_vec(map, keys, saves_to_preserve)
    /\ pc' = "selected"
    /\ UNCHANGED <<dir, saves_to_preserve, listing, saves, map, user_input,
                   idx, phase, calls, result, exit_code, file_name, details,
                   previous>>

----------------------------------------------------------------------------
(* group_saves, sort_map_saves and get_delete_vec on any parsed records *)

\* most records handed to group_saves
MaxRecords == 3

FolderName(character, id, category, n) ==
    character \o <<"-">> \o id \o <<"_">> \o category \o <<"_">> \o to_string(n)

ManualSave == <<"M","a","n","u","a","l","S","a","v","e">>
Bob == <<"B","o","b">>

RecordNames ==
    { FolderName(Alice, <<"1">>, QuickSave, 3),
      FolderName(Alice, <<"1">>, QuickSave, 2),
      FolderName(Alice, <<"1">>, QuickSave, 1),
      FolderName(Alice, <<"2">>, QuickSave, 2),
      FolderName(Alice, <<"1">>, AutoSave, 2),
      FolderName(Alice, <<"1">>, AutoSave, 1),
      FolderName(Alice, <<"1">>, ManualSave, 9),
      FolderName(Bob, <<"1">>, QuickSave, 4),
      FolderName(Bob, <<"1">>, ManualSave, 5) }

RecordPool == {package_details(n).val : n \in RecordNames}

RECURSIVE SeqsUpTo(_, _)
SeqsUpTo(S, n) ==
    IF n = 0 THEN {<<>>}
    ELSE LET shorter == SeqsUpTo(S, n - 1) IN
         shorter \cup {Append(q, x) : q \in shorter, x \in S}

InitLists ==
    /\ pc = "scanned"
    /\ saves \in SeqsUpTo(RecordPool, MaxRecords)
    /\ saves_to_preserve \in 0..MaxPreserve
    /\ dir = {}
    /\ listing = <<>>
    /\ map = HashMap_new
    /\ delete_vec = <<>>
    /\ user_input = <<>>
    /\ idx = 0
    /\ phase = "none"
    /\ calls = <<>>
    /\ result = None
    /\ exit_code = -1
    /\ file_name = <<>>
    /\ details = NoCall
    /\ previous = NoRun

NextLists ==
    \/ GroupSaves
    \/ SortMapSaves
    \/ GetDeleteVec

SpecLists == InitLists /\ [][NextLists]_vars

----------------------------------------------------------------------------
(* main: the run over a save directory *)

DEFAULT_SAVES_TO_PRESERVE == 10

unwrap_or(option, default) == IF option.tag = "Some" THEN option.val ELSE default

\* a directory entry: its name, what it is, and the files inside it
Entry(name, kind, children) == [name |-> name, kind |-> kind, children |-> children]

NoDashHere == <<"N","o","D","a","s","h","H","e","r","e">>

EntryPool ==
    { Entry(FolderName(Alice, <<"1">>, QuickSave, 3), "dir", 1),
      Entry(FolderName(Alice, <<"1">>, QuickSave, 2), "dir", 2),
      Entry(FolderName(Alice, <<"1">>, QuickSave, 1), "dir", 0),
      Entry(FolderName(Alice, <<"2">>, QuickSave, 2), "dir", 1),
      Entry(FolderName(Alice, <<"1">>, AutoSave, 7), "dir", 1),
      Entry(FolderName(Bob, <<"1">>, QuickSave, 4), "dir", 1),
      Entry(FolderName(Alice, <<"1">>, ManualSave, 9), "dir", 1),
      Entry(NoDashHere \o <<"_">> \o QuickSave \o <<"_","5">>, "dir", 1),
      Entry(FolderName(Alice, <<"1">>, QuickSave, 8), "file", 0),
      Entry(FolderName(<<"U+00E9">>, <<"1">>, QuickSave, 6), "dir", 1) }

Directories == {d \in SUBSET EntryPool : Cardinality(d) <= MaxEntries}

\* the lines the user may type at the prompt, as read_line returns them
InputLines ==
    { <<"y","\n">>, <<"Y","\r","\n">>, <<" ","y","\n">>, <<"n","\n">>,
      <<"Y","e","s","\n">>, <<"\n">>, <<>> }

Init ==
    /\ pc = "start"
    /\ dir \in Directories
    /\ saves_to_preserve \in
          {unwrap_or(option, DEFAULT_SAVES_TO_PRESERVE) :
              option \in {None} \cup {Some(n) : n \in 0..MaxPreserve}}
    /\ listing = <<>>
    /\ saves = <<>>
    /\ map = HashMap_new
    /\ delete_vec = <<>>
    /\ user_input = <<>>
    /\ idx = 0
    /\ phase = "none"
    /\ calls = <<>>
    /\ result = None
    /\ exit_code = -1
    /\ file_name = <<>>
    /\ details = NoCall
    /\ previous = NoRun

\* a main that returns the pipeline's error instead of printing it
ReturnOk_propagate(r) ==
    /\ result' = r
    /\ exit_code' = IF is_err(r) THEN 1 ELSE 0
    /\ pc' = "exit"

\* main returns Ok(()) after its match on the pipeline's result
ReturnOk(r) ==
    /\ result' = r
    /\ exit_code' = 0
    /\ pc' = "exit"

\* path_to_use, then the println! of the directory: the given path, or the
\* current directory, which may not resolve (the `?` returns the error from
\* main); directory.to_str().unwrap() panics on a path that is not UTF-8
PathToUse ==
    /\ pc = "start"
    /\ \E given_path \in {"Some", "None"}, current_dir_ok \in BOOLEAN,
          path_is_utf8 \in BOOLEAN :
          IF given_path = "None" /\ ~current_dir_ok
          THEN /\ result' = Err("NoPath")
               /\ exit_code' = 1
               /\ pc' = "exit"
          ELSE IF ~path_is_utf8
          THEN /\ result' = Err("Panic")
               /\ exit_code' = 101
               /\ pc' = "exit"
          ELSE /\ pc' = "read_dir"
               /\ UNCHANGED <<result, exit_code>>
    /\ UNCHANGED <<dir, saves_to_preserve, listing, saves, map, delete_vec,
                   user_input, idx, phase, calls, file_name, details,
                   previous>>

\* fs::read_dir(directory) fails
ReadDirFails ==
    /\ pc = "read_dir"
    /\ ReturnOk(Err("CannotReadDirectory"))
    /\ UNCHANGED <<dir, saves_to_preserve, listing, saves, map, delete_vec,
                   user_input, idx, phase, calls, file_name, details,
                   previous>>

\* the two filters of the scan
is_scanned(entry) ==
    /\ entry.kind = "dir"
    /\ entry.name # <<>> /\ is_ascii(entry.name)

\* a scan that collects into a Result: the first Err ends it
RECURSIVE scan_until_error(_)
scan_until_error(entries) ==
    IF entries = <<>> THEN <<>>
    ELSE LET entry == Head(entries)
             parsed == package_details(entry.name)
         IN  IF ~is_scanned(entry) THEN scan_until_error(Tail(entries))
             ELSE IF is_ok(parsed) THEN <<parsed.val>> \o scan_until_error(Tail(entries))
             ELSE <<>>

\* the flat_map over the entries: an Ok record is kept, an Err yields nothing
RECURSIVE scan(_)
scan(entries) ==
    IF entries = <<>> THEN <<>>
    ELSE LET entry == Head(entries)
             parsed == package_details(entry.name)
         IN  IF is_scanned(entry) /\ is_ok(parsed)
             THEN <<parsed.val>> \o scan(Tail(entries))
             ELSE scan(Tail(entries))

\* fs::read_dir succeeds and yields the entries in some order (every entry is
\* read without an I/O error, so flatten() drops none)
Scan ==
    /\ pc = "read_dir"
    /\ \E entries \in Enumerations(dir) :
          /\ listing' = entries
          /\ saves' = scan(entries)
    /\ pc' = "scanned"
    /\ UNCHANGED <<dir, saves_to_preserve, map, delete_vec, user_input,
                   idx, phase, calls, result, exit_code, file_name, details,
                   previous>>

\* confirm_user_delete: reads a line and trims it
ConfirmUserDelete ==
    /\ pc = "selected"
    /\ \E line \in InputLines : user_input' = trim(line)
    /\ pc' = "confirmed"
    /\ UNCHANGED <<dir, saves_to_preserve, listing, saves, map, delete_vec,
                   idx, phase, calls, result, exit_code, file_name, details,
                   previous>>

\* a test of the first letter only
confirmed_by_first_letter(input) ==
    input # <<>> /\ eq_ignore_ascii_case(<<Head(input)>>, <<"y">>)

\* the test that opens delete
confirmed(input) == eq_ignore_ascii_case(input, <<"y">>)

\* delete: the user did not confirm
DeleteNotConfirmed ==
    /\ pc = "confirmed"
    /\ ~confirmed(user_input)
    /\ ReturnOk(Ok(<<>>))
    /\ UNCHANGED <<dir, saves_to_preserve, listing, saves, map, delete_vec,
                   user_input, idx, phase, calls, file_name, details,
                   previous>>

\* delete: the user confirmed; the iterator over deletable_saves starts
DeleteConfirmed ==
    /\ pc = "confirmed"
    /\ confirmed(user_input)
    /\ IF delete_vec = <<>>
       THEN /\ ReturnOk(Ok(<<>>))
            /\ UNCHANGED <<idx, phase>>
       ELSE /\ pc' = "deleting"
            /\ idx' = 1
            /\ phase' = "read_dir"
            /\ UNCHANGED <<result, exit_code>>
    /\ UNCHANGED <<dir, saves_to_preserve, listing, saves, map, delete_vec,
                   user_input, calls, file_name, details,
                   previous>>

FsCall(op, name, ok) == [op |-> op, name |-> name, ok |-> ok]

Target == delete_vec[idx].file_name

TargetEntries == {e \in dir : e.name = Target}

\* a delete that goes on with the next candidate after an Err
OnDeleteError_continue(e) ==
    IF idx < Len(delete_vec)
    THEN /\ idx' = idx + 1
         /\ phase' = "read_dir"
         /\ UNCHANGED <<pc, result, exit_code, dir>>
    ELSE /\ ReturnOk(Err(e))
         /\ UNCHANGED <<idx, phase, dir>>

\* collect::<Result<Vec<()>, ProgramError>>() meets an Err: delete returns it
OnDeleteError(e) ==
    /\ ReturnOk(Err(e))
    /\ UNCHANGED <<idx, phase, dir>>

\* remove_children_of_dir: fs::read_dir(path)
DeleteReadDir ==
    /\ pc = "deleting" /\ phase = "read_dir"
    /\ \E ok \in BOOLEAN :
          /\ ok => TargetEntries # {}
          /\ calls' = Append(calls, FsCall("read_dir", Target, ok))
          /\ IF ok
             THEN /\ phase' = "remove"
                  /\ UNCHANGED <<pc, idx, dir, result, exit_code>>
             ELSE OnDeleteError("FailedToReadDir")
    /\ UNCHANGED <<saves_to_preserve, listing, saves, map, delete_vec,
                   user_input, file_name, details,
                   previous>>

\* remove_children_of_dir: fs::remove_file of the next child
DeleteRemoveFile ==
    /\ pc = "deleting" /\ phase = "remove"
    /\ \E entry \in TargetEntries : \E ok \in BOOLEAN :
          /\ entry.children > 0
          /\ calls' = Append(calls, FsCall("remove_file", Target, ok))
          /\ IF ok
             THEN /\ dir' = (dir \ {entry})
                               \cup {Entry(entry.name, entry.kind, entry.children - 1)}
                  /\ UNCHANGED <<pc, idx, phase, result, exit_code>>
             ELSE OnDeleteError("FailedToDelete")
    /\ UNCHANGED <<saves_to_preserve, listing, saves, map, delete_vec,
                   user_input, file_name, details,
                   previous>>

\* fs::remove_dir(path), once the children are gone; then the next candidate
DeleteRemoveDir ==
    /\ pc = "deleting" /\ phase = "remove"
    /\ \E entry \in TargetEntries : \E ok \in BOOLEAN :
          /\ entry.children = 0
          /\ calls' = Append(calls, FsCall("remove_dir", Target, ok))
          /\ IF ok
             THEN /\ dir' = dir \ {entry}
                  /\ IF idx < Len(delete_vec)
                     THEN /\ idx' = idx + 1
                          /\ phase' = "read_dir"
                          /\ UNCHANGED <<pc, result, exit_code>>
                     ELSE /\ ReturnOk(Ok(<<>>))
                          /\ UNCHANGED <<idx, phase>>
             ELSE OnDeleteError("FailedToDelete")
    /\ UNCHANGED <<saves_to_preserve, listing, saves, map, delete_vec,
                   user_input, file_name, details,
                   previous>>

\* the program is started again on the directory the run left behind, with the
\* same arguments; nothing but the directory outlives a run
Rerun ==
    /\ pc = "exit"
    /\ previous' =
          [clean   |-> is_ok(result) /\ confirmed(user_input),
           removed |-> Cardinality({i \in 1..Len(calls) :
                                      calls[i].op = "remove_dir" /\ calls[i].ok})]
    /\ pc' = "start"
    /\ listing' = <<>>
    /\ saves' = <<>>
    /\ map' = HashMap_new
    /\ delete_vec' = <<>>
    /\ user_input' = <<>>
    /\ idx' = 0
    /\ phase' = "none"
    /\ calls' = <<>>
    /\ result' = None
    /\ exit_code' = -1
    /\ UNCHANGED <<dir, saves_to_preserve, file_name, details>>

Next ==
    \/ PathToUse
    \/ ReadDirFails
    \/ Scan
    \/ GroupSaves
    \/ SortMapSaves
    \/ GetDeleteVec
    \/ ConfirmUserDelete
    \/ DeleteNotConfirmed
    \/ DeleteConfirmed
    \/ DeleteReadDir
    \/ DeleteRemoveFile
    \/ DeleteRemoveDir

Spec == Init /\ [][Next]_vars

NextRerun == Next \/ Rerun

SpecRerun == Init /\ [][NextRerun]_vars

----------------------------------------------------------------------------
(* What the parser's contract says of a name, stated without the parser *)

\* position (from 1) of the first character c of s, 0 when there is none
FirstIndexOf(s, c) ==
    IF \E i \in 1..Len(s) : s[i] = c
    THEN CHOOSE i \in 1..Len(s) : s[i] = c /\ \A j \in 1..(i - 1) : s[j] # c
    ELSE 0

\* position (from 1) of the last character c of s, 0 when there is none
LastIndexOf(s, c) ==
    IF \E i \in 1..Len(s) : s[i] = c
    THEN CHOOSE i \in 1..Len(s) : s[i] = c /\ \A j \in (i + 1)..Len(s) : s[j] # c
    ELSE 0

\* what follows the last '_' of s
LastSegment(s) == SubSeq(s, LastIndexOf(s, "_") + 1, Len(s))

AllDigits(s) == s # <<>> /\ \A i \in 1..Len(s) : is_digit(s[i])

RECURSIVE Pow10(_)
Pow10(k) == IF k = 0 THEN 1 ELSE 10 * Pow10(k - 1)

RECURSIVE SumDigits(_, _)
SumDigits(s, i) ==
    IF i > Len(s) THEN 0
    ELSE to_digit(s[i]) * Pow10(Len(s) - i) + SumDigits(s, i + 1)

\* the number a string of decimal digits denotes
DecimalValue(s) == SumDigits(s, 1)

SameLetterIgnoringCase(c, d) ==
    \/ c = d
    \/ \E i \in 1..26 : {c, d} = {UpperCase[i], LowerCase[i]}

\* word occurs in s at some position, letter case ignored
OccursIgnoringCase(s, word) ==
    \E i \in 1..(Len(s) - Len(word) + 1) :
        \A k \in 1..Len(word) : SameLetterIgnoringCase(s[i + k - 1], word[k])

Returned(fn) == details.fn = fn

----------------------------------------------------------------------------
(* C6: in package_details the sequence-number check comes first: a name that  *)
(* fails both the sequence-number and the character-name check returns the    *)
(* sequence-number error (NotEnoughUnderscores or StringNotNumber), and       *)
(* NameNotDetected is returned only when the sequence number parsed.          *)
C6_SequenceNumberCheckFirst ==
    Returned("package_details") =>
        /\ (is_err(save_number(file_name)) /\ is_err(character_name(file_name)))
              => /\ is_err(details.ret)
                 /\ details.ret.err \in {"NotEnoughUnderscores", "StringNotNumber"}
        /\ (is_err(details.ret) /\ details.ret.err = "NameNotDetected")
              => is_ok(save_number(file_name))

\* a name with neither '_' nor '-' was given and the sequence-number error came back
C6_Witness ==
    /\ Returned("package_details")
    /\ FirstIndexOf(file_name, "-") = 0
    /\ LastIndexOf(file_name, "_") = 0
    /\ file_name # <<>>
    /\ is_err(details.ret)
    /\ details.ret.err = "NotEnoughUnderscores"

(* C7: save_number fails with NotEnoughUnderscores when the name has no '_'   *)
(* (fewer than 2 segments); otherwise a last segment of decimal digits worth  *)
(* at most 65535 yields exactly that value, and every other last segment      *)
(* (overflow, empty, any non-digit character, a leading sign) fails with      *)
(* StringNotNumber.                                                           *)
C7_SaveNumberContract ==
    Returned("save_number") =>
        IF LastIndexOf(file_name, "_") = 0
        THEN details.ret = Err("NotEnoughUnderscores")
        ELSE IF /\ AllDigits(LastSegment(file_name))
                /\ DecimalValue(LastSegment(file_name)) <= U16Max
             THEN details.ret = Ok(DecimalValue(LastSegment(file_name)))
             ELSE details.ret = Err("StringNotNumber")

(* C8: character_name fails with NameNotDetected when the name has no '-' or  *)
(* its first '-' is the first character; otherwise it returns exactly the     *)
(* characters before the first '-' (no '-' among them, not empty).            *)
C8_CharacterNameContract ==
    Returned("character_name") =>
        IF FirstIndexOf(file_name, "-") <= 1
        THEN details.ret = Err("NameNotDetected")
        ELSE /\ details.ret = Ok(SubSeq(file_name, 1, FirstIndexOf(file_name, "-") - 1))
             /\ details.ret.val # <<>>
             /\ \A i \in 1..Len(details.ret.val) : details.ret.val[i] # "-"

(* C9: save_type never fails and looks at no position: "quicksave" anywhere,  *)
(* in any letter case, gives Quick (also beside "autosave"); otherwise        *)
(* "autosave" anywhere gives Auto; otherwise Unrecognized; and package_details*)
(* builds the record with that category whenever the other two checks pass,   *)
(* Unrecognized included.                                                     *)
C9_Category(name) ==
    IF OccursIgnoringCase(name, quicksave) THEN "Quick"
    ELSE IF OccursIgnoringCase(name, autosave) THEN "Auto"
    ELSE "Unrecognized"

C9_SaveTypeTotal ==
    /\ Returned("save_type") => details.ret = Ok(C9_Category(file_name))
    /\ (/\ Returned("package_details")
        /\ is_ok(save_number(file_name))
        /\ is_ok(character_name(file_name)))
          => /\ is_ok(details.ret)
             /\ details.ret.val.save_type = C9_Category(file_name)
             /\ details.ret.val.file_name = file_name

\* package_details built a record whose category is Unrecognized
C9_Witness ==
    /\ Returned("package_details")
    /\ is_ok(details.ret)
    /\ details.ret.val.save_type = "Unrecognized"
    /\ details.ret.val.character_name = Alice

----------------------------------------------------------------------------
(* Views of the pipeline's state used by the statements below *)

Range(q) == {q[i] : i \in 1..Len(q)}

Count(q, r) == Cardinality({i \in 1..Len(q) : q[i] = r})

Max0(n) == IF n > 0 THEN n ELSE 0

\* the records of q that belong to character k and category c, in q's order
Of(q, k, c) == SelectSeq(q, LAMBDA r : r.character_name = k /\ r.save_type = c)

Characters(q) == {q[i].character_name : i \in 1..Len(q)}

Kept == {"Quick", "Auto"}

ListOf(k, c) == IF c = "Quick" THEN map[k].quick_saves ELSE map[k].auto_saves

AliceQuick(n) ==
    SaveInformation(FolderName(Alice, <<"1">>, QuickSave, n), Alice, "Quick", n)

----------------------------------------------------------------------------
(* C1: group_saves, sort_map_saves, get_delete_vec in a row: for every        *)
(* character and each of its two categories with L records and preserve count *)
(* P there are exactly max(0, L-P) candidates, all of them input records, and *)
(* every kept record has a sequence number >= that of every candidate of the  *)
(* same character and category; Alice-1_QuickSave_3, _2, _1 with P = 1 give   *)
(* exactly the records 2 and 1.                                               *)
C1_EndToEndRetention ==
    pc = "selected" =>
        /\ \A i \in 1..Len(delete_vec) :
              delete_vec[i] \in Range(saves) /\ delete_vec[i].save_type \in Kept
        /\ \A k \in Characters(saves) : \A c \in Kept :
              LET input == Of(saves, k, c)
                  candidates == Of(delete_vec, k, c)
              IN  /\ Len(candidates) = Max0(Len(input) - saves_to_preserve)
                  /\ \A r \in Range(input) :
                        /\ Count(candidates, r) <= Count(input, r)
                        /\ Count(candidates, r) < Count(input, r)
                              => \A j \in 1..Len(candidates) :
                                    r.save_number >= candidates[j].save_number
        /\ (/\ saves_to_preserve = 1
            /\ Len(saves) = 3
            /\ Range(saves) = {AliceQuick(3), AliceQuick(2), AliceQuick(1)})
              => delete_vec = <<AliceQuick(2), AliceQuick(1)>>

\* the three Alice folders, listed in ascending order, with P = 1
C1_Witness ==
    /\ pc = "selected"
    /\ saves_to_preserve = 1
    /\ saves = <<AliceQuick(1), AliceQuick(2), AliceQuick(3)>>
    /\ delete_vec = <<AliceQuick(2), AliceQuick(1)>>

(* C2: deletable_saves(list, P) on a list sorted descending, of length L, is  *)
(* the entries at positions P..L-1 in their order: max(0, L-P) entries, none  *)
(* of them above a kept one; empty when P >= L, the whole list when P = 0.    *)
C2_DeletableSaves ==
    pc \in {"sorted", "selected"} =>
        \A k \in DOMAIN map : \A c \in Kept :
            LET list == ListOf(k, c)
                L == Len(list)
                P == saves_to_preserve
                got == deletable_saves(list, P)
            IN  /\ Len(got) = Max0(L - P)
                /\ \A i \in 1..Len(got) : got[i] = list[P + i]
                /\ \A i \in 1..L : i <= P =>
                      \A j \in 1..Len(got) : list[i].save_number >= got[j].save_number
                /\ P >= L => got = <<>>
                /\ P = 0 => got = list
                /\ pc = "selected" => Of(delete_vec, k, c) = got

\* a list of three with P = 1: two candidates
C2_Witness ==
    /\ pc = "selected"
    /\ saves_to_preserve = 1
    /\ Alice \in DOMAIN map
    /\ Len(map[Alice].quick_saves) = 3
    /\ Len(delete_vec) = 2

(* C10: group_saves loses and duplicates nothing: each list of the table      *)
(* holds exactly the input records of its character and category, in input    *)
(* order and as often as the input has them; Unrecognized records are in no   *)
(* list.                                                                      *)
C10_GroupingLossless ==
    pc = "grouped" =>
        /\ DOMAIN map = Characters(saves)
        /\ \A k \in DOMAIN map :
              /\ map[k].quick_saves = Of(saves, k, "Quick")
              /\ map[k].auto_saves = Of(saves, k, "Auto")
              /\ \A c \in Kept : \A i \in 1..Len(ListOf(k, c)) :
                    ListOf(k, c)[i].save_type # "Unrecognized"

\* a record given twice, beside an Unrecognized one
C10_Witness ==
    /\ pc = "grouped"
    /\ Len(saves) = 3
    /\ saves[1] = saves[3]
    /\ saves[1].save_type = "Auto"
    /\ saves[2].save_type = "Unrecognized"
    /\ Len(map[saves[1].character_name].auto_saves) = 2

----------------------------------------------------------------------------
(* C3: in delete, whatever the candidates, a trimmed answer other than "y" or *)
(* "Y" (such as "n", "Yes" or the empty line) leads to no read_dir,           *)
(* remove_file or remove_dir call and to an Ok result; only "y" or "Y" lets   *)
(* deletion proceed.                                                          *)
Yes == {<<"y">>, <<"Y">>}

\* delete was entered: main ended neither before nor at fs::read_dir
ReachedDelete ==
    \/ pc = "deleting"
    \/ /\ pc = "exit"
       /\ ~(is_err(result) /\ result.err \in {"NoPath", "Panic", "CannotReadDirectory"})

C3_OnlyYesDeletes ==
    /\ calls # <<>> => user_input \in Yes
    /\ pc = "deleting" => user_input \in Yes
    /\ (ReachedDelete /\ user_input \notin Yes)
          => /\ pc = "exit"
             /\ result = Ok(<<>>)
             /\ calls = <<>>
             /\ dir = Range(listing)

\* the user answered "Yes" to a list of candidates and nothing was removed
C3_Witness ==
    /\ pc = "exit"
    /\ user_input = <<"Y","e","s">>
    /\ delete_vec # <<>>
    /\ result = Ok(<<>>)
    /\ calls = <<>>

(* C4: once confirmed, delete takes the candidates in list order and stops at *)
(* the first failing read_dir, remove_file or remove_dir: it returns that     *)
(* error at once, makes no call for a later candidate, does not try           *)
(* remove_dir on a folder whose enumeration or file removal failed, and       *)
(* leaves the folders it removed before removed.                              *)
CandidateIndex(name) ==
    CHOOSE j \in 1..Len(delete_vec) : delete_vec[j].file_name = name

ErrorOf(op) == IF op = "read_dir" THEN "FailedToReadDir" ELSE "FailedToDelete"

Parses(entry) == is_ok(package_details(entry.name))

WithoutRejected == SelectSeq(listing, Parses)

RecordsOfMap ==
    UNION {Range(map[k].quick_saves) \cup Range(map[k].auto_saves) : k \in DOMAIN map}

C5_ParseFailuresDropped ==
    pc = "selected" =>
        LET siblings == WithoutRejected
            expected == scan(siblings)
            considered == {siblings[i].name : i \in {j \in 1..Len(siblings) :
                                                      is_scanned(siblings[j])}}
        IN  /\ result = None
            /\ saves = expected
            /\ {saves[i].file_name : i \in 1..Len(saves)} = considered
            /\ \A r \in RecordsOfMap \cup Range(delete_vec) : r.file_name \in considered
            /\ map = sort_map_saves(group_saves(expected))
            /\ \E keys \in Enumerations(DOMAIN map) :
                  delete_vec = get_delete_vec(
                      sort_map_saves(group_saves(expected)), keys, saves_to_preserve)

NoDashHereEntry == Entry(NoDashHere \o <<"_">> \o QuickSave \o <<"_","5">>, "dir", 1)

\* NoDashHere_QuickSave_5 was listed first, and its two siblings were still
\* grouped and one of them selected
C5_Witness ==
    /\ pc = "selected"
    /\ Len(listing) = 3
    /\ listing[1] = NoDashHereEntry
    /\ Len(saves) = 2
    /\ Len(delete_vec) = 1

----------------------------------------------------------------------------
(* C11: sort_map_saves leaves every quick and every auto list a permutation   *)
(* of itself in descending order of sequence number (strictly descending when *)
(* the numbers are distinct), with records of equal number in their input     *)
(* order; the keys stay the same and no record changes character or category. *)
WithNumber(q, n) == SelectSeq(q, LAMBDA r : r.save_number = n)

Numbers(q) == {q[i].save_number : i \in 1..Len(q)}

C11_SortDescendingStable ==
    pc = "sorted" =>
        /\ DOMAIN map = Characters(saves)
        /\ \A k \in DOMAIN map : \A c \in Kept :
              LET before == Of(saves, k, c)
                  after == ListOf(k, c)
              IN  /\ Len(after) = Len(before)
                  /\ \A r \in Range(before) \cup Range(after) :
                        Count(after, r) = Count(before, r)
                  /\ \A i, j \in 1..Len(after) :
                        i < j => after[i].save_number >= after[j].save_number
                  /\ Cardinality(Numbers(before)) = Len(before)
                        => \A i, j \in 1..Len(after) :
                              i < j => after[i].save_number > after[j].save_number
                  /\ \A n \in Numbers(before) :
                        WithNumber(after, n) = WithNumber(before, n)

\* two different folders numbered 2 came before folder 3: 3 moved to the front
\* and the two kept their order
C11_Witness ==
    /\ pc = "sorted"
    /\ Len(saves) = 3
    /\ saves[1].file_name = FolderName(Alice, <<"2">>, QuickSave, 2)
    /\ saves[2].file_name = FolderName(Alice, <<"1">>, QuickSave, 2)
    /\ saves[3] = AliceQuick(3)
    /\ map[Alice].quick_saves = <<saves[3], saves[1], saves[2]>>

----------------------------------------------------------------------------
(* C12, as stated: on every failure that is fatal to the run, main returns    *)
(* Ok(()) and the process ends with status 0, in each of the cases            *)
(* CannotReadDirectory, FailedToReadDir, FailedToDelete and NoPath.           *)
C12_ZeroExitOnEveryFailure ==
    (/\ pc = "exit"
     /\ is_err(result)
     /\ result.err \in {"CannotReadDirectory", "FailedToReadDir",
                        "FailedToDelete", "NoPath"})
       => exit_code = 0

(* C12, amended: main returns Ok(()) (status 0) when the failure is           *)
(* CannotReadDirectory, FailedToReadDir or FailedToDelete; on NoPath the `?`  *)
(* in main returns the error, the status is 1, and nothing downstream ran.    *)
C12_ZeroExitExceptNoPath ==
    (pc = "exit" /\ is_err(result)) =>
        /\ result.err \in {"CannotReadDirectory", "FailedToReadDir", "FailedToDelete"}
              => exit_code = 0
        /\ result.err = "NoPath"
              => /\ exit_code = 1
                 /\ listing = <<>>
                 /\ delete_vec = <<>>
                 /\ calls = <<>>

\* a folder could not be removed and the process still ended with status 0
C12_Witness ==
    /\ pc = "exit"
    /\ result = Err("FailedToDelete")
    /\ calls # <<>>
    /\ calls[Len(calls)].op = "remove_dir"
    /\ exit_code = 0

----------------------------------------------------------------------------
(* C13: package_details returns an error for every name that is empty or has  *)
(* a non-ASCII character, filtered by the caller or not: such a name never    *)
(* yields a SaveInformation record.                                           *)
C13_RejectsEmptyAndNonAscii ==
    (Returned("package_details") /\ (file_name = <<>> \/ ~is_ascii(file_name)))
       => is_err(details.ret)

----------------------------------------------------------------------------
(* C14: in every run, whatever the answer and wherever deletion fails, the    *)
(* only folders a filesystem call of delete names are folders of the listing  *)
(* that are deletion candidates; a folder among the most recent P of its      *)
(* character and category, an Unrecognized folder, a folder whose name did    *)
(* not parse and an entry that is no directory are never touched and stay in  *)
(* the directory.                                                             *)

\* what package_details makes of each name a directory entry can have
ParsedName == [n \in {e.name : e \in EntryPool} |-> package_details(n)]

\* the entry is a folder the retention policy applies to
Considered(entry) ==
    /\ entry.kind = "dir"
    /\ entry.name # <<>> /\ is_ascii(entry.name)
    /\ is_ok(ParsedName[entry.name])
    /\ ParsedName[entry.name].val.save_type \in Kept

SameGroup(a, b) ==
    /\ ParsedName[a.name].val.character_name = ParsedName[b.name].val.character_name
    /\ ParsedName[a.name].val.save_type = ParsedName[b.name].val.save_type

\* how many folders of its character and category are more recent than the
\* one listed at position p (of two with the same number, the one listed first)
Rank(p) ==
    Cardinality({q \in 1..Len(listing) :
        /\ q # p
        /\ Considered(listing[q])
        /\ SameGroup(listing[q], listing[p])
        /\ LET mine == ParsedName[listing[p].name].val.save_number
               other == ParsedName[listing[q].name].val.save_number
           IN  other > mine \/ (other = mine /\ q < p)})

Protected(p) == ~Considered(listing[p]) \/ Rank(p) < saves_to_preserve

C14_OnlyCandidatesTouched ==
    /\ \A i \in 1..Len(calls) :
          /\ \E p \in 1..Len(listing) : listing[p].name = calls[i].name
          /\ \E j \in 1..Len(delete_vec) : delete_vec[j].file_name = calls[i].name
    /\ \A p \in 1..Len(listing) :
          \/ /\ listing[p] \in dir
             /\ \A i \in 1..Len(calls) : calls[i].name # listing[p].name
          \/ ~Protected(p)

\* with P = 1, folder 2 was removed while folder 3 and the ManualSave folder
\* are still there
C14_Witness ==
    /\ pc = "exit"
    /\ saves_to_preserve = 1
    /\ result = Ok(<<>>)
    /\ Len(listing) = 3
    /\ \E i \in 1..Len(calls) :
          calls[i] = FsCall("remove_dir", FolderName(Alice, <<"1">>, QuickSave, 2), TRUE)
    /\ dir = { Entry(FolderName(Alice, <<"1">>, QuickSave, 3), "dir", 1),
               Entry(FolderName(Alice, <<"1">>, ManualSave, 9), "dir", 1) }

----------------------------------------------------------------------------
(* C15: a run that follows a run in which the user confirmed and every        *)
(* deletion succeeded, on the directory that run left and with the same       *)
(* preserve count, selects no deletion candidate: every character and         *)
(* category then holds at most P folders, and the run removes nothing.        *)

C15_RerunSelectsNothing ==
    previous.clean =>
       /\ pc \in {"selected", "confirmed", "deleting", "exit"} /\ ~is_err(result)
             => /\ delete_vec = <<>>
                /\ \A k \in DOMAIN map : \A c \in Kept :
                      Len(ListOf(k, c)) <= saves_to_preserve
       /\ calls = <<>>
       /\ pc # "deleting"

\* the first run removed two of Alice's three quick saves; the second run
\* finds the one that is left and selects nothing
C15_Witness ==
    /\ previous.clean /\ previous.removed = 2
    /\ pc = "selected"
    /\ saves_to_preserve = 1
    /\ saves = <<AliceQuick(3)>>
    /\ delete_vec = <<>>

====
